---- MODULE Spec2Model ----
(***************************************************************************)
(* A model of git_dump's RepoProcessor (src/src/git_dump/core.py): the     *)
(* ignore-resolution engine (is_ignored and the ignore files it reads),    *)
(* the include / size / binary filters and the traversal and writing done  *)
(* by process().  Paths, patterns, file contents and everything written to *)
(* the output artifact are strings, as in the program.                     *)
(***************************************************************************)
EXTENDS Naturals, Sequences, FiniteSets, TLC

(***************************************************************************)
(* Strings                                                                 *)
(***************************************************************************)

\* The one element of a one-element set.  A value that is used more than
\* once is bound as the element of a one-element set throughout this
\* module, which computes it once.
The(S) == CHOOSE x \in S : TRUE

\* os.sep on the platforms the tests run on.
SEP == "/"

\* s[i] of a Python string (1-based here).
CharAt(s, i) == SubSeq(s, i, i)

\* str.startswith
StartsWith(s, p) == Len(p) <= Len(s) /\ SubSeq(s, 1, Len(p)) = p

\* str.endswith
EndsWith(s, p) == Len(p) <= Len(s) /\ SubSeq(s, Len(s) - Len(p) + 1, Len(s)) = p

\* s[n:] of a Python string: s without its first n characters.
DropFirst(s, n) == SubSeq(s, n + 1, Len(s))

\* c in s, for a one-character c.
HasChar(s, c) == \E i \in 1..Len(s) : CharAt(s, i) = c

\* The characters of the model's file names and contents in code-point order:
\* Python compares strings code point by code point.
CodePoints == "\n !#*-./0123456789:<>ABCDEFGHIJKLMNOPQRSTUVWXYZ_abcdefghijklmnopqrstuvwxyz{|}"

Ord(c) == CHOOSE i \in 1..Len(CodePoints) : CharAt(CodePoints, i) = c

\* a < b on Python strings.
RECURSIVE StrLess(_, _)
StrLess(a, b) ==
    IF Len(b) = 0 THEN FALSE
    ELSE IF Len(a) = 0 THEN TRUE
    ELSE IF CharAt(a, 1) = CharAt(b, 1) THEN StrLess(DropFirst(a, 1), DropFirst(b, 1))
    ELSE Ord(CharAt(a, 1)) < Ord(CharAt(b, 1))

\* sorted(S) for a set of strings.
RECURSIVE sorted(_)
sorted(S) ==
    The({IF T = {} THEN <<>>
         ELSE The({<<m>> \o sorted(T \ {m}) :
                   m \in {CHOOSE x \in T : \A y \in T \ {x} : StrLess(x, y)}}) :
         T \in {S}})

\* s.split("/")
RECURSIVE Split(_)
Split(s) ==
    The({IF ~HasChar(v, SEP) THEN <<v>>
         ELSE The({<<SubSeq(v, 1, i - 1)>> \o Split(DropFirst(v, i)) :
                   i \in {CHOOSE k \in 1..Len(v) :
                              CharAt(v, k) = SEP /\ \A j \in 1..(k - 1) : CharAt(v, j) # SEP}}) :
         v \in {s}})

\* os.path.join(a, b) for a relative b: join("", b) is b.
PathJoin(a, b) == IF a = "" THEN b ELSE IF EndsWith(a, SEP) THEN a \o b ELSE a \o SEP \o b

\* The directory part of a relative path ("" for a top-level name).
DirName(p) ==
    The({IF ~HasChar(v, SEP) THEN ""
         ELSE SubSeq(v, 1, (CHOOSE k \in 1..Len(v) :
                               CharAt(v, k) = SEP /\ ~HasChar(DropFirst(v, k), SEP)) - 1) :
         v \in {p}})

\* The last component of a relative path.
BaseName(p) == The({segs[Len(segs)] : segs \in {Split(p)}})

(***************************************************************************)
(* Pattern matching: fnmatch and pathspec's gitwildmatch                   *)
(***************************************************************************)

\* Shell-style matching of a whole string: "*" matches any run of
\* characters, "?" any one character, anything else itself.  fnmatch's "*"
\* also matches "/"; a gitwildmatch segment never holds one.
RECURSIVE Glob(_, _)
Glob(pat, s) ==
    IF Len(pat) = 0 THEN Len(s) = 0
    ELSE IF CharAt(pat, 1) = "*"
         THEN \/ Glob(DropFirst(pat, 1), s)
              \/ Len(s) > 0 /\ Glob(pat, DropFirst(s, 1))
    ELSE IF Len(s) = 0 THEN FALSE
    ELSE /\ CharAt(pat, 1) = "?" \/ CharAt(pat, 1) = CharAt(s, 1)
         /\ Glob(DropFirst(pat, 1), DropFirst(s, 1))

\* fnmatch.fnmatch(name, pat) on a case-sensitive platform.
fnmatch(name, pat) == Glob(pat, name)

\* One line of an ignore file as pathspec's GitWildMatchPattern reads it:
\* include is "none" for a blank line or a comment (the line matches
\* nothing), FALSE for a negation ("!..."), TRUE otherwise; a pattern with
\* no "/" but a trailing one floats (matches at any depth), any other is
\* anchored at the ignore file's directory; a trailing "/" matches only
\* what lies beneath the named directory.
GitPattern(line) ==
    LET blank    == line = "" \/ StartsWith(line, "#") \/ line = "/"
        neg      == StartsWith(line, "!")
        p1       == IF neg THEN DropFirst(line, 1) ELSE line
        dirOnly  == Len(p1) > 1 /\ EndsWith(p1, SEP)
        p2       == IF dirOnly THEN SubSeq(p1, 1, Len(p1) - 1) ELSE p1
        rooted   == StartsWith(p2, SEP)
        p3       == IF rooted THEN DropFirst(p2, 1) ELSE p2
    IN  [include  |-> IF blank \/ p3 = "" THEN "none" ELSE IF neg THEN "neg" ELSE "pos",
         anchored |-> rooted \/ HasChar(p3, SEP),
         dirOnly  |-> dirOnly,
         segs     |-> Split(p3)]

\* Whether the pattern of one line matches a path (relative to the ignore
\* file's directory): its segments match consecutive components of the path
\* starting at the first one (anchored) or at any one (floating); the path
\* may continue beneath the match, and must for a directory-only pattern.
PatternMatches(line, path) ==
    \E p \in {GitPattern(line)}, ps \in {Split(path)} :
        /\ p.include # "none"
        /\ \E k \in 1..Len(ps), n \in {Len(p.segs)} :
              /\ p.anchored => k = 1
              /\ k + n - 1 <= Len(ps)
              /\ \A i \in 1..n : Glob(p.segs[i], ps[k + i - 1])
              /\ p.dirOnly => k + n - 1 < Len(ps)

\* The verdict of an ordered pattern list on a path: that of the last
\* matching pattern ("pos": ignored, "neg": re-included), "none" when no
\* pattern matches.
Verdict(lines, path) ==
    The({IF hits = {} THEN "none"
         ELSE GitPattern(lines[CHOOSE i \in hits : \A j \in hits : j <= i]).include :
         hits \in {{i \in 1..Len(lines) : PatternMatches(lines[i], path)}}})

\* PathSpec.match_file: whether the last matching pattern is not a negation.
match_file(lines, path) == Verdict(lines, path) = "pos"

(***************************************************************************)
(* The repository on disk                                                  *)
(***************************************************************************)

\* os.path.abspath(repo_path)
RepoPath == "/r"

\* The name os.walk and _get_nested_gitignore_specs look ignore files up by.
GITIGNORE == ".gitignore"

\* The directories of the repository, relative to RepoPath ("" is the root).
TreeDirs == {"", ".git", "sub", "sub/in", "other"}

\* Its ordinary files; ignore files and the output artifact come and go
\* with the state.
TreeFiles == {".git/config", "keep.log", "secret.txt", "sub/keep.log",
              "sub/secret.txt", "sub/in/keep.log", "other/secret.txt"}

\* What each ordinary file holds.
FileText(f) ==
    CASE f = ".git/config"      -> "core\n"
      [] f = "keep.log"         -> "k"
      [] f = "secret.txt"       -> "s3\n"
      [] f = "sub/keep.log"     -> "kk\n"
      [] f = "sub/secret.txt"   -> "key"
      [] f = "sub/in/keep.log"  -> "deep\n"
      [] f = "other/secret.txt" -> "oo"
      [] OTHER                  -> ""

\* f.readlines() read back into the file's text: every line ends in "\n".
RECURSIVE JoinLines(_)
JoinLines(lines) ==
    IF lines = <<>> THEN "" ELSE Head(lines) \o "\n" \o JoinLines(Tail(lines))

NoIgnoreFile == [exists |-> FALSE, readable |-> TRUE, lines |-> <<>>]

IgnoreFile(lines) == [exists |-> TRUE, readable |-> TRUE, lines |-> lines]

\* An ignore file that exists and cannot be opened.
UnreadableIgnoreFile(lines) == [exists |-> TRUE, readable |-> FALSE, lines |-> lines]

VARIABLES
    gitignores,      \* per directory: its .gitignore (exists, readable, lines)
    listing,         \* the order in which the filesystem lists the root's subdirectories
    special,         \* one file with a defect: [path, kind]
    cfg,             \* RepoProcessor's constructor arguments other than dry_run
    dry_run,         \* self.dry_run
    spec,            \* self.spec: the root-level pattern list (<<>>: None)
    total_tokens,    \* self.total_tokens
    pc,              \* "idle" | "walk" | "done" | "exited"
    outfile,         \* "none" (None) | "open" | "closed"
    artifact,        \* the output artifact on disk: [exists, chunks]
    processed_count, \* process()'s local counter
    walk_stack,      \* os.walk: the directories still to be yielded, next first
    root,            \* os.walk's current directory (absolute)
    files_left,      \* the files of root still to be processed, in loop order
    evaluated,       \* history: every is_ignored call of this run and what followed
    runs             \* history: the process() calls that have ended

vars == <<gitignores, listing, special, cfg, dry_run, spec, total_tokens, pc, outfile,
          artifact, processed_count, walk_stack, root, files_left, evaluated, runs>>

env == <<gitignores, listing, special, cfg>>

\* The output artifact's path relative to the repository ("" when outside).
OutputRel ==
    IF StartsWith(cfg.output_file, RepoPath \o SEP)
    THEN DropFirst(cfg.output_file, Len(RepoPath) + 1) ELSE ""

\* The files a directory (relative path) holds, given whether the output
\* artifact exists.
FilesIn(d, out_exists) ==
    {BaseName(f) : f \in {t \in TreeFiles : DirName(t) = d}}
    \cup (IF gitignores[d].exists THEN {GITIGNORE} ELSE {})
    \cup (IF out_exists /\ OutputRel # "" /\ DirName(OutputRel) = d
          THEN {BaseName(OutputRel)} ELSE {})

\* The subdirectories of a directory in the order the filesystem lists them.
SubdirsOf(d) ==
    IF d = "" THEN listing
    ELSE sorted({BaseName(s) : s \in {t \in TreeDirs \ {""} : DirName(t) = d}})

\* open(path).read() of a file of the repository.
ReadText(f) ==
    IF special.path = f /\ special.kind = "empty" THEN ""
    ELSE IF BaseName(f) = GITIGNORE /\ DirName(f) \in TreeDirs
    THEN JoinLines(gitignores[DirName(f)].lines)
    ELSE FileText(f)

\* os.path.getsize
getsize(f) == Len(ReadText(f))

(***************************************************************************)
(* RepoProcessor: ignore resolution                                        *)
(***************************************************************************)

\* os.path.relpath(abs, RepoPath) for a directory at or below RepoPath.
relpath(abs) == IF abs = RepoPath THEN "." ELSE DropFirst(abs, Len(RepoPath) + 1)

\* The directory's path relative to the repository, "" for the root.
RelDir(abs) == IF relpath(abs) = "." THEN "" ELSE relpath(abs)

\* Path(p).parent for a directory below RepoPath.
AbsParent(abs) ==
    IF DirName(RelDir(abs)) = "" THEN RepoPath ELSE PathJoin(RepoPath, DirName(RelDir(abs)))

\* _load_spec: the root ignore file's lines, then the user's patterns.
\* The result <<>> stands for None (no pattern at all).
LoadSpec(g) ==
    (IF cfg.use_gitignore /\ g[""].exists /\ g[""].readable THEN g[""].lines ELSE <<>>)
    \o cfg.ignore_patterns

\* A variant of NestedSpecsFrom that takes the rules of an ignore file it
\* could not open as well.
RECURSIVE NestedSpecsUnreadableToo(_, _)
NestedSpecsUnreadableToo(g, current_path) ==
    The({(IF g[rel].exists /\ g[rel].lines # <<>>
          THEN <<[lines |-> g[rel].lines, base_path |-> rel]>>
          ELSE <<>>)
         \o (IF cur = RepoPath THEN <<>> ELSE NestedSpecsUnreadableToo(g, AbsParent(cur))) :
         cur \in {current_path}, rel \in {RelDir(current_path)}})

\* _get_nested_gitignore_specs: the (pattern list, base path) of every
\* readable, non-empty ignore file from `directory` up to the repository
\* root, the deepest first.
RECURSIVE NestedSpecsFrom(_, _)
NestedSpecsFrom(g, current_path) ==
    The({(IF g[rel].exists /\ g[rel].readable /\ g[rel].lines # <<>>
          THEN <<[lines |-> g[rel].lines, base_path |-> rel]>>
          ELSE <<>>)
         \o (IF cur = RepoPath THEN <<>> ELSE NestedSpecsFrom(g, AbsParent(cur))) :
         cur \in {current_path}, rel \in {RelDir(current_path)}})

get_nested_gitignore_specs(g, directory) ==
    IF ~cfg.use_gitignore THEN <<>> ELSE NestedSpecsFrom(g, directory)

\* A variant of is_ignored that asks every ignore file of the repository,
\* on the chain to `directory` or not, about the whole relative path.
is_ignored_repo_wide(g, relative_path, directory) ==
    IF relative_path = ".git" \/ StartsWith(relative_path, ".git" \o SEP) THEN TRUE
    ELSE IF PathJoin(RepoPath, relative_path) = cfg.output_file THEN TRUE
    ELSE \/ /\ cfg.use_gitignore
            /\ \E d \in TreeDirs :
                  /\ g[d].exists /\ g[d].readable /\ g[d].lines # <<>>
                  /\ match_file(g[d].lines, relative_path)
         \/ spec # <<>> /\ match_file(spec, relative_path)

\* A variant of is_ignored without the fixed exclusion of the output file.
is_ignored_without_output_file(g, relative_path, directory) ==
    IF relative_path = ".git" \/ StartsWith(relative_path, ".git" \o SEP) THEN TRUE
    ELSE \/ \E nested_specs \in {IF directory # "" /\ cfg.use_gitignore
                                  THEN get_nested_gitignore_specs(g, directory) ELSE <<>>} :
               \E i \in 1..Len(nested_specs) :
                  \E s \in {nested_specs[i]} :
                     IF s.base_path # ""
                     THEN /\ StartsWith(relative_path, s.base_path \o SEP)
                          /\ match_file(s.lines, DropFirst(relative_path, Len(s.base_path) + 1))
                     ELSE match_file(s.lines, relative_path)
         \/ spec # <<>> /\ match_file(spec, relative_path)

\* is_ignored(relative_path, directory), reading the ignore files g.
is_ignored(g, relative_path, directory) ==
    IF relative_path = ".git" \/ StartsWith(relative_path, ".git" \o SEP) THEN TRUE
    ELSE IF PathJoin(RepoPath, relative_path) = cfg.output_file THEN TRUE
    ELSE \/ \E nested_specs \in {IF directory # "" /\ cfg.use_gitignore
                                  THEN get_nested_gitignore_specs(g, directory) ELSE <<>>} :
               \E i \in 1..Len(nested_specs) :
                  \E s \in {nested_specs[i]} :
                     IF s.base_path # ""
                     THEN /\ StartsWith(relative_path, s.base_path \o SEP)
                          /\ match_file(s.lines, DropFirst(relative_path, Len(s.base_path) + 1))
                     ELSE match_file(s.lines, relative_path)
         \/ spec # <<>> /\ match_file(spec, relative_path)

\* _matches_include
matches_include(relative_path) ==
    \/ cfg.include_patterns = <<>>
    \/ \E i \in 1..Len(cfg.include_patterns) : fnmatch(relative_path, cfg.include_patterns[i])

\* _is_binary: a null byte or undecodable bytes in the first 8 KiB, or a
\* file that cannot be opened.
is_binary(f) ==
    \/ special.path = f /\ special.kind \in {"binary", "unreadable"}
    \/ /\ EndsWith(f, GITIGNORE)
       /\ BaseName(f) = GITIGNORE
       /\ DirName(f) \in TreeDirs
       /\ ~gitignores[DirName(f)].readable

(***************************************************************************)
(* The tree diagram and the delimiters                                     *)
(***************************************************************************)

UpperCase == "ABCDEFGHIJKLMNOPQRSTUVWXYZ"
LowerCase == "abcdefghijklmnopqrstuvwxyz"

\* str.lower
RECURSIVE Lower(_)
Lower(s) ==
    IF s = "" THEN ""
    ELSE LET c == CharAt(s, 1)
         IN  (IF HasChar(UpperCase, c)
              THEN CharAt(LowerCase, CHOOSE i \in 1..Len(UpperCase) : CharAt(UpperCase, i) = c)
              ELSE c) \o Lower(DropFirst(s, 1))

\* sorted(S, key=lambda x: x.name.lower()) for names of one kind.
RECURSIVE sorted_lower(_)
sorted_lower(S) ==
    The({IF T = {} THEN <<>>
         ELSE The({<<m>> \o sorted_lower(T \ {m}) :
                   m \in {CHOOSE x \in T : \A y \in T : ~StrLess(Lower(y), Lower(x))}}) :
         T \in {S}})

\* _should_ignore's fixed list.
NoiseNames == {".git", "__pycache__", ".pytest_cache", ".ruff_cache", ".venv", "venv",
               "node_modules", ".DS_Store"}

\* A variant of should_ignore that also leaves out of the diagram what the
\* merged ignore patterns match.
should_ignore_or_ignored(rel_path) ==
    \/ \E parts \in {Split(rel_path)} : \E i \in 1..Len(parts) : parts[i] \in NoiseNames
    \/ spec # <<>> /\ match_file(spec, rel_path)

\* _should_ignore: some component of the relative path is in the list.
should_ignore(rel_path) ==
    LET parts == Split(rel_path) IN \E i \in 1..Len(parts) : parts[i] \in NoiseNames

\* The children of a directory as the diagram orders them, (is_file,
\* lowered name) ascending: directories first.  Each is [path, is_dir].
TreeChildren(d, out_exists) ==
    The({[i \in 1..Len(sd) |-> [path |-> PathJoin(d, sd[i]), is_dir |-> TRUE]]
         \o [i \in 1..Len(sf) |-> [path |-> PathJoin(d, sf[i]), is_dir |-> FALSE]] :
         sd \in {sorted_lower({n \in {BaseName(t) :
                                        t \in {u \in TreeDirs \ {""} : DirName(u) = d}} :
                                  ~should_ignore(PathJoin(d, n))})},
         sf \in {sorted_lower({n \in FilesIn(d, out_exists) :
                                  ~should_ignore(PathJoin(d, n))})}})

\* The diagram's glyphs, written in ASCII here: TEE for the branch mark
\* before a name, BAR and GAP for the two indents.
TEE == "|-- "
BAR == "|   "
GAP == "    "

\* _add_tree_item (max_depth is None in process()): the lines of one item.
RECURSIVE add_tree_item(_, _, _)
add_tree_item(item, prefix, out_exists) ==
    IF should_ignore(item.path) THEN <<>>
    ELSE IF item.is_dir
    THEN The({LET sub[i \in 0..Len(children)] ==
                      IF i = 0 THEN <<>>
                      ELSE sub[i - 1] \o
                           add_tree_item(children[i],
                                         prefix \o (IF i = Len(children) THEN GAP ELSE BAR),
                                         out_exists)
              IN  <<prefix \o TEE \o item.path \o "/">> \o sub[Len(children)] :
              children \in {TreeChildren(item.path, out_exists)}})
    ELSE <<prefix \o TEE \o item.path>>

\* "\n".join(lines)
RECURSIVE JoinNL(_)
JoinNL(lines) ==
    IF Len(lines) = 0 THEN ""
    ELSE IF Len(lines) = 1 THEN lines[1]
    ELSE lines[1] \o "\n" \o JoinNL(Tail(lines))

\* generate_tree_structure(self.repo_path)
generate_tree_structure(out_exists) ==
    The({LET body[i \in 0..Len(children)] ==
                 IF i = 0 THEN <<>>
                 ELSE body[i - 1] \o
                      add_tree_item(children[i], IF i = Len(children) THEN "" ELSE BAR,
                                    out_exists)
         IN  JoinNL(<<"--- REPOSITORY STRUCTURE ---", BaseName(DropFirst(RepoPath, 1)) \o "/">>
                    \o body[Len(children)]
                    \o <<"--- END REPOSITORY STRUCTURE ---\n">>) :
         children \in {TreeChildren("", out_exists)}})

\* template.format(path=path): "{path}" is replaced, "{{" and "}}" are
\* literal braces, and any other brace raises (KeyError, IndexError or
\* ValueError): ok is FALSE then.
RECURSIVE Format(_, _)
Format(template, path) ==
    IF template = "" THEN [ok |-> TRUE, text |-> ""]
    ELSE LET step(n, out) ==
                 The({[ok |-> rest.ok, text |-> out \o rest.text] :
                      rest \in {Format(DropFirst(template, n), path)}})
         IN  IF StartsWith(template, "{path}") THEN step(6, path)
             ELSE IF StartsWith(template, "{{") THEN step(2, "{")
             ELSE IF StartsWith(template, "}}") THEN step(2, "}")
             ELSE IF CharAt(template, 1) \in {"{", "}"} THEN [ok |-> FALSE, text |-> ""]
             ELSE step(1, CharAt(template, 1))

\* estimate_tokens, which get_tiktoken_token_count falls back to.
estimate_tokens(text) == Len(text) \div 4

(***************************************************************************)
(* Bounds and the inputs Init draws from                                   *)
(***************************************************************************)

\* The most lines an ignore file holds.
MaxLines == 2

\* The most process() calls in one behaviour.
MaxRuns == 2

\* Every sequence over S of length at most n.
SeqsUpTo(S, n) == UNION {[1..k -> S] : k \in 0..n}

\* An ignore file with the given lines; no file at all for no lines.
FileOf(lines) == IF lines = <<>> THEN NoIgnoreFile ELSE IgnoreFile(lines)

RootLines == {"*.log", "!keep.log"}
SubLines == {"!keep.log", "secret.txt"}
ExtraPatterns == {<<>>, <<"!keep.log">>, <<"!.git", "!out.txt">>, <<"sub">>}
IncludePatterns == {<<>>, <<"*.log">>, <<"sub/*", "*.txt">>, <<".git/*", "out.txt">>}
Listings == {<<".git", "other", "sub">>, <<"sub", ".git", "other">>}
Delimiters == {<<"--- FILE: {path} ---", "--- END FILE ---">>, <<"START {path}", "END {path}">>,
               <<"{name}", "END">>, <<"START", "END {0}">>, <<"{{{path}}}", "END">>}
SpecialKinds == {"none", "binary", "unreadable", "size_error", "read_error", "write_error",
                 "token_error", "empty"}
SpecialPath == "sub/in/keep.log"

\* RepoProcessor.__init__'s defaults.
DefaultCfg ==
    [use_gitignore   |-> TRUE,
     ignore_patterns |-> <<>>,
     include_patterns |-> <<>>,
     start_delimiter |-> "--- FILE: {path} ---",
     end_delimiter   |-> "--- END FILE ---",
     max_file_size   |-> 512000,
     include_tree    |-> TRUE,
     count_tokens    |-> FALSE,
     output_file     |-> "/o/out.txt"]

NoIgnoreFiles == [d \in TreeDirs |-> NoIgnoreFile]

NoSpecial == [path |-> SpecialPath, kind |-> "none"]

DefaultListing == <<".git", "other", "sub">>

\* Ignore files and ignore patterns vary; the output lies in the tree.
IgnoreFamily ==
    /\ \E r \in SeqsUpTo(RootLines, MaxLines), n \in SeqsUpTo(SubLines, MaxLines) :
          gitignores = [NoIgnoreFiles EXCEPT ![""] = FileOf(r), !["sub"] = FileOf(n)]
    /\ \E e \in ExtraPatterns :
          cfg = [DefaultCfg EXCEPT !.ignore_patterns = e, !.include_tree = FALSE,
                                   !.output_file = "/r/out.txt"]
    /\ listing = DefaultListing
    /\ special = NoSpecial
    /\ dry_run = FALSE

\* Ignore files are there and use_gitignore is off.
NoGitignoreFamily ==
    /\ gitignores = [NoIgnoreFiles EXCEPT ![""] = FileOf(<<"*.log">>),
                                          !["sub"] = FileOf(<<"secret.txt">>)]
    /\ \E e \in ExtraPatterns :
          cfg = [DefaultCfg EXCEPT !.use_gitignore = FALSE, !.ignore_patterns = e,
                                   !.include_tree = FALSE, !.output_file = "/r/out.txt"]
    /\ listing = DefaultListing
    /\ special = NoSpecial
    /\ dry_run \in BOOLEAN

\* The include, size and binary filters vary.
FilterFamily ==
    /\ \E r \in {<<>>, <<"*.log">>} :
          gitignores = [NoIgnoreFiles EXCEPT ![""] = FileOf(r)]
    /\ \E i \in IncludePatterns, m \in {2, 3, 512000} :
          cfg = [DefaultCfg EXCEPT !.include_patterns = i, !.max_file_size = m,
                                   !.include_tree = FALSE, !.output_file = "/r/out.txt"]
    /\ listing = DefaultListing
    /\ \E k \in {"none", "binary", "size_error"} : special = [path |-> SpecialPath, kind |-> k]
    /\ dry_run \in BOOLEAN

\* The output artifact, the delimiters, token counting and the defects vary.
OutputFamily ==
    /\ gitignores = NoIgnoreFiles
    /\ \E o \in {"/o/out.txt", "/r/out.txt"}, d \in Delimiters, c \in BOOLEAN :
          cfg = [DefaultCfg EXCEPT !.output_file = o, !.start_delimiter = d[1],
                                   !.end_delimiter = d[2], !.count_tokens = c]
    /\ listing = DefaultListing
    /\ \E k \in SpecialKinds : special = [path |-> SpecialPath, kind |-> k]
    /\ dry_run \in BOOLEAN

\* The filesystem's listing order and the diagram vary; the output may be
\* impossible to create.
OrderFamily ==
    /\ \E r \in {<<>>, <<"sub">>} :
          gitignores = [NoIgnoreFiles EXCEPT ![""] = FileOf(r)]
    /\ \E t \in BOOLEAN, o \in {"/r/out.txt", "/missing/out.txt"} :
          cfg = [DefaultCfg EXCEPT !.include_tree = t, !.output_file = o]
    /\ listing \in Listings
    /\ special = NoSpecial
    /\ dry_run \in BOOLEAN

\* A file or an ignore file cannot be read, or a directory cannot be
\* listed, in the middle of the walk.
FaultFamily ==
    /\ \E n \in {IgnoreFile(<<"secret.txt">>), UnreadableIgnoreFile(<<"secret.txt">>)} :
          gitignores = [NoIgnoreFiles EXCEPT !["sub"] = n]
    /\ \E t \in BOOLEAN :
          cfg = [DefaultCfg EXCEPT !.include_tree = t, !.output_file = "/r/out.txt"]
    /\ listing = <<"sub", ".git", "other">>
    /\ \E k \in {"none", "read_error", "size_error", "unreadable", "unlistable", "empty"} :
          special = [path |-> SpecialPath, kind |-> k]
    /\ dry_run \in BOOLEAN

(***************************************************************************)
(* RepoProcessor: construction and process()                               *)
(***************************************************************************)

NoArtifact == [exists |-> FALSE, chunks |-> <<>>]

\* The state after RepoProcessor(...) has been constructed over a tree.
Init ==
    /\ \/ IgnoreFamily \/ NoGitignoreFamily \/ FilterFamily \/ OutputFamily \/ OrderFamily
       \/ FaultFamily
    /\ spec = LoadSpec(gitignores)
    /\ total_tokens = 0
    /\ pc = "idle"
    /\ outfile = "none"
    /\ artifact = NoArtifact
    /\ processed_count = 0
    /\ walk_stack = <<>>
    /\ root = RepoPath
    /\ files_left = <<>>
    /\ evaluated = <<>>
    /\ runs = <<>>

\* Another RepoProcessor over the same tree, with the same arguments but
\* the other dry_run (__init__, lines 129-142).
Construct ==
    /\ pc = "done"
    /\ Len(runs) < MaxRuns
    /\ dry_run' = ~dry_run
    /\ spec' = LoadSpec(gitignores)
    /\ total_tokens' = 0
    /\ pc' = "idle"
    /\ outfile' = "none"
    /\ processed_count' = 0
    /\ evaluated' = <<>>
    /\ UNCHANGED <<env, artifact, walk_stack, root, files_left, runs>>

\* open(self.output_file, "w") raises when the file cannot be created.
OpenFails == StartsWith(cfg.output_file, "/missing/")

\* A variant of Truncated for a file opened to append: what it held stays.
Appended(chunks) == chunks

\* Listing the directory (relative path) raises PermissionError.
Unlistable(d) == special.kind = "unlistable" /\ d = DirName(special.path)

\* generate_tree_structure raises: item_path.iterdir() of a directory the
\* diagram shows fails.
TreeRaises == \E d \in TreeDirs : Unlistable(d) /\ ~should_ignore(d)

\* A variant of Closed that leaves the handle as it is.
LeftAsIs(handle) == handle

\* The finally block: "if outfile: outfile.close()".
Closed(handle) == IF handle = "open" THEN "closed" ELSE handle

\* What open(..., "w") leaves in the file: nothing.
Truncated(chunks) == <<>>

\* One outfile.write call.
Chunk(kind, path, text) == [kind |-> kind, path |-> path, text |-> text]

\* What one ended process() call leaves in the history.
RunRecord(exited, count, log, handle) ==
    [dry_run |-> dry_run, exited |-> exited, count |-> count, exists |-> artifact.exists,
     chunks |-> artifact.chunks, outfile |-> handle, tokens |-> total_tokens,
     emitted |-> SelectSeq(log, LAMBDA e : e.outcome \in {"counted", "would_process"})]

\* process() up to the walk (lines 270-286): the output is opened, unless
\* this is a dry run, and the diagram written; a failure to open, or an
\* exception from the diagram after the finally block has closed the
\* output, ends the program (lines 359-364).
StartProcess ==
    /\ pc \in {"idle", "done"}
    /\ Len(runs) < MaxRuns
    /\ processed_count' = 0
    /\ evaluated' = <<>>
    /\ files_left' = <<>>
    /\ root' = RepoPath
    /\ IF dry_run
       THEN /\ outfile' = "none"
            /\ artifact' = artifact
            /\ pc' = "walk"
            /\ walk_stack' = <<RepoPath>>
            /\ runs' = runs
       ELSE IF OpenFails
       THEN /\ outfile' = "none"
            /\ artifact' = artifact
            /\ pc' = "exited"
            /\ walk_stack' = <<>>
            /\ runs' = Append(runs, RunRecord(TRUE, 0, <<>>, "none"))
       ELSE IF cfg.include_tree /\ TreeRaises
       THEN /\ outfile' = Closed("open")
            /\ artifact' = [exists |-> TRUE, chunks |-> Truncated(artifact.chunks)]
            /\ pc' = "exited"
            /\ walk_stack' = <<>>
            /\ runs' = Append(runs, [RunRecord(TRUE, 0, <<>>, Closed("open"))
                                        EXCEPT !.exists = TRUE,
                                               !.chunks = Truncated(artifact.chunks)])
       ELSE /\ outfile' = "open"
            /\ artifact' =
                   [exists |-> TRUE,
                    chunks |-> Truncated(artifact.chunks) \o
                               (IF cfg.include_tree
                                THEN <<Chunk("tree", "", generate_tree_structure(TRUE))>>
                                ELSE <<>>)]
            /\ pc' = "walk"
            /\ walk_stack' = <<RepoPath>>
            /\ runs' = runs
    /\ UNCHANGED <<env, dry_run, spec, total_tokens>>

\* A variant of KeptDirs that removes nothing from dirs.
KeptDirsAll(dirs, ignored) == dirs

\* dirs after "for d in dirs_to_remove: dirs.remove(d)" (lines 295-301).
KeptDirs(dirs, ignored) == SelectSeq(dirs, LAMBDA d : d \notin ignored)

\* The order of the file loop (line 303).
LoopOrder(files) == sorted(files)

\* One step of os.walk and the directory filter (lines 289-301): the next
\* directory is listed, its ignored subdirectories are removed from dirs,
\* and the rest will be walked next, in the order dirs has them.  os.walk
\* (onerror=None) passes over a directory it cannot list.
WalkDir ==
    /\ pc = "walk"
    /\ files_left = <<>>
    /\ walk_stack # <<>>
    /\ IF Unlistable(RelDir(Head(walk_stack)))
       THEN /\ walk_stack' = Tail(walk_stack)
            /\ UNCHANGED <<root, files_left, evaluated>>
       ELSE
       \E top \in {Head(walk_stack)} :
       \E rel_dir \in {RelDir(top)} :
       \E dirs \in {SubdirsOf(rel_dir)} :
       \E ignored \in {{dirs[i] : i \in {j \in 1..Len(dirs) :
                            is_ignored(gitignores, PathJoin(rel_dir, dirs[j]), top)}}} :
       \E kept \in {KeptDirs(dirs, ignored)} :
           /\ root' = top
           /\ walk_stack' = [i \in 1..Len(kept) |-> PathJoin(top, kept[i])] \o Tail(walk_stack)
           /\ files_left' = LoopOrder(FilesIn(rel_dir, artifact.exists))
           /\ evaluated' = evaluated \o
                  [i \in 1..Len(dirs) |->
                      [path |-> PathJoin(rel_dir, dirs[i]), directory |-> top, is_dir |-> TRUE,
                       ignored |-> dirs[i] \in ignored,
                       outcome |-> IF dirs[i] \in ignored THEN "pruned" ELSE "walked"]]
    /\ UNCHANGED <<env, dry_run, spec, total_tokens, pc, outfile, artifact, processed_count,
                   runs>>

\* A variant of TooLarge that also rejects a file of exactly the ceiling.
TooLargeOrEqual(file_size) == file_size >= cfg.max_file_size

\* A variant of FilterOutcome in which a match of an include pattern lets
\* an ignored file through, the fixed exclusions apart.
FilterOutcomeIncludeFirst(rel_file, top) ==
    IF is_ignored(gitignores, rel_file, top)
       /\ (cfg.include_patterns = <<>> \/ ~matches_include(rel_file)
           \/ (rel_file = ".git" \/ StartsWith(rel_file, ".git" \o SEP) \/ PathJoin(RepoPath, rel_file) = cfg.output_file))
    THEN "ignored"
    ELSE IF ~matches_include(rel_file) THEN "not_included"
    ELSE IF special.path = rel_file /\ special.kind = "size_error" THEN "size_error"
    ELSE IF getsize(rel_file) > cfg.max_file_size THEN "too_large"
    ELSE IF is_binary(rel_file) THEN "binary"
    ELSE "pass"

\* file_size > self.max_file_size (line 317)
TooLarge(file_size) == file_size > cfg.max_file_size

\* The filters of the file loop up to the binary check (lines 306-328):
\* the outcome that ends the iteration, or "pass".
FilterOutcome(rel_file, top) ==
    IF is_ignored(gitignores, rel_file, top) THEN "ignored"
    ELSE IF ~matches_include(rel_file) THEN "not_included"
    ELSE IF special.path = rel_file /\ special.kind = "size_error" THEN "size_error"
    ELSE IF TooLarge(getsize(rel_file)) THEN "too_large"
    ELSE IF is_binary(rel_file) THEN "binary"
    ELSE "pass"

\* A variant of NeedsNewline that terminates an empty file too.
NeedsNewlineAlways(file_content) == ~EndsWith(file_content, "\n")

\* if file_content and not file_content.endswith("\n") (line 344)
NeedsNewline(file_content) == file_content # "" /\ ~EndsWith(file_content, "\n")

\* The writes of one record (lines 336-352) and how the iteration ends:
\* "counted", or "error" where an exception left the try block.
WriteOutcome(rel_file) ==
  The({
    LET defect       == IF special.path = rel_file THEN special.kind ELSE "none"
        head         == <<Chunk("start", rel_file, start.text \o "\n")>>
        body         == <<Chunk("content", rel_file, file_content)>> \o
                        (IF NeedsNewline(file_content)
                         THEN <<Chunk("newline", rel_file, "\n")>> ELSE <<>>)
        foot         == <<Chunk("end", rel_file, end.text \o "\n")>>
    IN  IF defect = "read_error" THEN [outcome |-> "error", chunks |-> <<>>, tokens |-> 0]
        ELSE IF ~start.ok THEN [outcome |-> "error", chunks |-> <<>>, tokens |-> 0]
        ELSE IF defect = "write_error" THEN [outcome |-> "error", chunks |-> head, tokens |-> 0]
        ELSE IF ~end.ok THEN [outcome |-> "error", chunks |-> head \o body, tokens |-> 0]
        ELSE IF cfg.count_tokens /\ defect = "token_error"
             THEN [outcome |-> "error", chunks |-> head \o body \o foot, tokens |-> 0]
        ELSE [outcome |-> "counted", chunks |-> head \o body \o foot,
              tokens |-> IF cfg.count_tokens THEN estimate_tokens(file_content) ELSE 0] :
    file_content \in {ReadText(rel_file)},
    start \in {Format(cfg.start_delimiter, rel_file)},
    end \in {Format(cfg.end_delimiter, rel_file)}})

\* One iteration of the file loop (lines 303-358).
ProcessFile ==
    /\ pc = "walk"
    /\ files_left # <<>>
    /\ \E rel_file \in {PathJoin(RelDir(root), Head(files_left))} :
       \E filtered \in {FilterOutcome(rel_file, root)} :
       \E written \in {WriteOutcome(rel_file)} :
       \E outcome \in {IF filtered # "pass" THEN filtered
                        ELSE IF dry_run THEN "would_process"
                        ELSE written.outcome} :
           /\ files_left' = Tail(files_left)
           /\ evaluated' = Append(evaluated,
                  [path |-> rel_file, directory |-> root, is_dir |-> FALSE,
                   ignored |-> filtered = "ignored", outcome |-> outcome])
           /\ processed_count' =
                  IF outcome \in {"would_process", "counted"}
                  THEN processed_count + 1 ELSE processed_count
           /\ artifact' = IF filtered = "pass" /\ ~dry_run
                          THEN [artifact EXCEPT !.chunks = @ \o written.chunks]
                          ELSE artifact
           /\ total_tokens' = IF outcome = "counted"
                              THEN total_tokens + written.tokens ELSE total_tokens
    /\ UNCHANGED <<env, dry_run, spec, pc, outfile, walk_stack, root, runs>>

\* The walk is over: the finally block closes the output (lines 359-361)
\* and process() returns processed_count (line 366).
Finish ==
    /\ pc = "walk"
    /\ files_left = <<>>
    /\ walk_stack = <<>>
    /\ outfile' = Closed(outfile)
    /\ pc' = "done"
    /\ runs' = Append(runs, RunRecord(FALSE, processed_count, evaluated, Closed(outfile)))
    /\ UNCHANGED <<env, dry_run, spec, total_tokens, artifact, processed_count, walk_stack,
                   root, files_left, evaluated>>

Next == Construct \/ StartProcess \/ WalkDir \/ ProcessFile \/ Finish

Spec == Init /\ [][Next]_vars

(***************************************************************************)
(* Vocabulary of the properties                                            *)
(***************************************************************************)

\* The is_ignored calls of the current run made for files.
FileEntries == SelectSeq(evaluated, LAMBDA e : ~e.is_dir)

\* A file the run admitted: counted, or (dry run) reported as would-be.
Admitted(e) == ~e.is_dir /\ e.outcome \in {"counted", "would_process"}

\* The records' chunks in the output artifact (everything but the diagram).
RecordChunks == SelectSeq(artifact.chunks, LAMBDA c : c.kind # "tree")

\* p is d or lies beneath d.
Beneath(p, d) == p = d \/ StartsWith(p, d \o SEP)

\* The paths the fixed exclusions name: the repository's .git directory and
\* all beneath it, and the output artifact when it lies in the tree.
FixedExcluded(p) == Beneath(p, ".git") \/ (OutputRel # "" /\ p = OutputRel)

\* The directories from d up to the root, the deepest first.
RECURSIVE ChainUp(_)
ChainUp(d) == IF d = "" THEN <<"">> ELSE <<d>> \o ChainUp(DirName(d))

\* A path re-expressed relative to a directory above it.
RelTo(p, base) == IF base = "" THEN p ELSE DropFirst(p, Len(base) + 1)

\* The verdict of one directory's ignore file on a path beneath it.
FileVerdict(d, p) ==
    IF gitignores[d].exists /\ gitignores[d].readable
    THEN Verdict(gitignores[d].lines, RelTo(p, d)) ELSE "none"

\* The verdict of the deepest ignore file, from directory d up to the last
\* directory of `chain`, that has one for p; "none" when none has.
DeepestVerdict(chain, p) ==
    The({IF hits = {} THEN "none"
         ELSE FileVerdict(chain[CHOOSE i \in hits : \A j \in hits : i <= j], p) :
         hits \in {{i \in 1..Len(chain) : FileVerdict(chain[i], p) # "none"}}})

(***************************************************************************)
(* C1  is_ignored resolves nested ignore files deepest-first: whenever an  *)
(* ignore file on the chain from the visited directory up to the root has  *)
(* a verdict for the path, the verdict of the deepest such file decides    *)
(* (ignored, or re-included by a negation).  The program ignores the path  *)
(* as soon as any file on the chain ignores it, so this fails.             *)
(***************************************************************************)
C1_DeepestWins ==
    \A i \in 1..Len(evaluated) :
        \E e \in {evaluated[i]} :
            (cfg.use_gitignore /\ ~FixedExcluded(e.path)) =>
                \E v \in {DeepestVerdict(ChainUp(RelDir(e.directory)), e.path)} :
                    v # "none" => (e.ignored <=> v = "pos")

(***************************************************************************)
(* C2  Pruning is absolute: once is_ignored has been true of a directory   *)
(* when its parent was visited, nothing beneath it is evaluated, counted   *)
(* or written, and os.walk never enters it, whatever the ignore files      *)
(* beneath it say.                                                         *)
(***************************************************************************)
C2_PruningAbsolute ==
    \A i \in 1..Len(evaluated) :
        (evaluated[i].is_dir /\ evaluated[i].ignored) =>
            \E d \in {evaluated[i].path} :
                /\ \A j \in 1..Len(evaluated) :
                      j # i => ~Beneath(evaluated[j].path, d)
                /\ \A k \in 1..Len(RecordChunks) : ~Beneath(RecordChunks[k].path, d)
                /\ ~Beneath(RelDir(root), d)
                /\ \A k \in 1..Len(walk_stack) : ~Beneath(RelDir(walk_stack[k]), d)

\* A run has ended in which sub was pruned although sub/.gitignore
\* re-includes sub/keep.log.
C2_Witness ==
    /\ pc = "done"
    /\ \E i \in 1..Len(evaluated) :
          evaluated[i].path = "sub" /\ evaluated[i].is_dir /\ evaluated[i].ignored
    /\ cfg.use_gitignore
    /\ FileVerdict("sub", "sub/keep.log") = "neg"

(***************************************************************************)
(* C3  Only the ignore files on the chain from the root to the path's      *)
(* directory are consulted: every verdict a step of the walk gets from     *)
(* is_ignored is the one it gives with all other ignore files removed.     *)
(* With root pattern *.log and sub/.gitignore holding secret.txt,          *)
(* sub/secret.txt is ignored and the secret.txt of the root and of the     *)
(* sibling directory are not.                                              *)
(***************************************************************************)
C3_OnlyAncestorChain ==
    [][\A i \in (Len(evaluated) + 1)..Len(evaluated') :
        \E e \in {evaluated'[i]} :
            /\ e.ignored =
                  is_ignored([d \in TreeDirs |->
                                 IF Beneath(RelDir(e.directory), d) \/ d = ""
                                 THEN gitignores[d] ELSE NoIgnoreFile],
                             e.path, e.directory)
            /\ ( /\ cfg.use_gitignore
                 /\ cfg.ignore_patterns = <<>>
                 /\ gitignores[""].lines = <<"*.log">>
                 /\ gitignores["sub"].lines = <<"secret.txt">> ) =>
                    /\ e.path = "sub/secret.txt" => e.ignored
                    /\ e.path \in {"secret.txt", "other/secret.txt"} => ~e.ignored]_vars

\* A run has ended that judged sub/secret.txt, secret.txt and
\* other/secret.txt while sub/.gitignore named secret.txt.
C3_Witness ==
    /\ pc = "done"
    /\ cfg.use_gitignore
    /\ cfg.ignore_patterns = <<>>
    /\ gitignores[""].lines = <<"*.log">>
    /\ gitignores["sub"].lines = <<"secret.txt">>
    /\ \A p \in {"sub/secret.txt", "secret.txt", "other/secret.txt"} :
          \E i \in 1..Len(evaluated) :
             evaluated[i].path = p /\ (evaluated[i].ignored <=> p = "sub/secret.txt")

(***************************************************************************)
(* C4  The root ignore file's lines and the user's extra patterns are one  *)
(* ordered list under last-match-wins: when no ignore file below the root  *)
(* has a verdict for a path, the path is ignored exactly when the last     *)
(* matching pattern of that list is not a negation.  The program also asks *)
(* the root ignore file on its own, so a user negation cannot re-include   *)
(* what the root file ignores, and this fails.                             *)
(***************************************************************************)
C4_RootListMerged ==
    \A i \in 1..Len(evaluated) :
        \E e \in {evaluated[i]} :
            ( /\ cfg.use_gitignore
              /\ ~FixedExcluded(e.path)
              /\ \E chain \in {ChainUp(RelDir(e.directory))} :
                    DeepestVerdict(SubSeq(chain, 1, Len(chain) - 1), e.path) = "none" ) =>
                (e.ignored <=>
                    Verdict((IF gitignores[""].exists /\ gitignores[""].readable
                             THEN gitignores[""].lines ELSE <<>>) \o cfg.ignore_patterns,
                            e.path) = "pos")

(***************************************************************************)
(* C5  The fixed exclusions are unconditional: in every configuration no   *)
(* path equal to or beneath the repository's .git, and not the output      *)
(* artifact's own path, is admitted, fails in the writing, or has a chunk  *)
(* of a record in the output; each is_ignored call on such a path is true. *)
(***************************************************************************)
C5_FixedExclusions ==
    /\ \A i \in 1..Len(evaluated) :
          FixedExcluded(evaluated[i].path) =>
              /\ evaluated[i].ignored
              /\ evaluated[i].outcome \in {"ignored", "pruned"}
    /\ \A k \in 1..Len(RecordChunks) : ~FixedExcluded(RecordChunks[k].path)

\* A run has ended that met .git and its own output in the tree while the
\* user's patterns negate both, or the include patterns name both.
C5_Witness ==
    /\ pc = "done"
    /\ \/ cfg.ignore_patterns = <<"!.git", "!out.txt">>
       \/ cfg.include_patterns = <<".git/*", "out.txt">>
    /\ OutputRel = "out.txt"
    /\ \A p \in {".git", "out.txt"} : \E i \in 1..Len(evaluated) : evaluated[i].path = p
    /\ \E i \in 1..Len(evaluated) : Admitted(evaluated[i])

\* The allow-list as the claim states it: no list, or some pattern matches.
C6_AllowListed(p) ==
    \/ Len(cfg.include_patterns) = 0
    \/ \E k \in 1..Len(cfg.include_patterns) : Glob(cfg.include_patterns[k], p)

(***************************************************************************)
(* C6  The include allow-list filters after ignore resolution, in every    *)
(* iteration of the file loop: a file that gets past the two (to the size  *)
(* and binary filters, and on to the output) is not ignored and matches    *)
(* the allow-list; an ignored file is dropped as ignored even when an      *)
(* include pattern matches it; a file is dropped by the allow-list only    *)
(* when no pattern matches it, and never when the list is empty.           *)
(***************************************************************************)
C6_IncludeAfterIgnore ==
    [][\A i \in (Len(evaluated) + 1)..Len(evaluated') :
        \E e \in {evaluated'[i]} :
            ~e.is_dir =>
            \E ign \in {is_ignored(gitignores, e.path, e.directory)} :
                /\ ign => e.outcome = "ignored"
                /\ e.outcome = "ignored" => ign
                /\ e.outcome = "not_included" => ~C6_AllowListed(e.path)
                /\ (~ign /\ ~C6_AllowListed(e.path)) => e.outcome = "not_included"
                /\ (~ign /\ cfg.include_patterns = <<>>) => e.outcome # "not_included"]_vars

\* A run with an allow-list has ended: one file was admitted, one was
\* dropped by the list, and one ignored file matches the list.
C6_Witness ==
    /\ pc = "done"
    /\ cfg.include_patterns # <<>>
    /\ \E i \in 1..Len(FileEntries) : Admitted(FileEntries[i])
    /\ \E i \in 1..Len(FileEntries) : FileEntries[i].outcome = "not_included"
    /\ \E i \in 1..Len(FileEntries) :
          /\ FileEntries[i].outcome = "ignored"
          /\ ~FixedExcluded(FileEntries[i].path)
          /\ C6_AllowListed(FileEntries[i].path)

(***************************************************************************)
(* C7  A file larger than max_file_size is never admitted and has no chunk *)
(* in the output, whatever its content and the include patterns; the size  *)
(* filter rejects no file of at most max_file_size bytes.                  *)
(***************************************************************************)
C7_SizeCeiling ==
    /\ \A i \in 1..Len(FileEntries) :
          \E e \in {FileEntries[i]} :
              /\ Len(ReadText(e.path)) > cfg.max_file_size =>
                    e.outcome \in {"ignored", "not_included", "size_error", "too_large"}
              /\ e.outcome = "too_large" => Len(ReadText(e.path)) > cfg.max_file_size
    /\ \A k \in 1..Len(RecordChunks) :
          Len(ReadText(RecordChunks[k].path)) <= cfg.max_file_size

\* A run has ended that rejected a file for its size and admitted one of
\* exactly max_file_size bytes.
C7_Witness ==
    /\ pc = "done"
    /\ \E i \in 1..Len(FileEntries) : FileEntries[i].outcome = "too_large"
    /\ \E i \in 1..Len(FileEntries) :
          /\ Admitted(FileEntries[i])
          /\ Len(ReadText(FileEntries[i].path)) = cfg.max_file_size

(***************************************************************************)
(* C8  Dry-run equivalence: over the same tree and configuration a dry run *)
(* returns the count a real run returns, and a dry run never opens,        *)
(* creates or writes the output artifact.  The program counts a file in a  *)
(* dry run before the steps that can still fail in a real run (reading,    *)
(* formatting the delimiters, writing, counting tokens), so the counts     *)
(* differ and this fails.                                                  *)
(***************************************************************************)
C8_DryRunEquivalence ==
    /\ \A i, j \in 1..Len(runs) :
          (runs[i].dry_run /\ ~runs[j].dry_run /\ ~runs[i].exited /\ ~runs[j].exited) =>
              runs[i].count = runs[j].count
    /\ (dry_run /\ pc = "walk") => outfile = "none"
    /\ \A i \in 1..Len(runs) :
          runs[i].dry_run =>
              /\ runs[i].outfile = "none"
              /\ i = 1 => (~runs[i].exists /\ runs[i].chunks = <<>>)
              /\ i > 1 => (runs[i].exists = runs[i - 1].exists
                           /\ runs[i].chunks = runs[i - 1].chunks)

(***************************************************************************)
(* C9  Idempotence: two real runs of process() over the unchanged tree     *)
(* with the unchanged configuration leave the same output document, chunk  *)
(* for chunk, also when the output artifact lies inside the tree.          *)
(***************************************************************************)
C9_Idempotent ==
    \A i, j \in 1..Len(runs) :
        (~runs[i].dry_run /\ ~runs[j].dry_run /\ ~runs[i].exited /\ ~runs[j].exited) =>
            runs[i].chunks = runs[j].chunks

\* Two real runs have ended with the output inside the tree, a diagram and
\* at least one record in it.
C9_Witness ==
    /\ Len(runs) = 2
    /\ \A i \in 1..2 : ~runs[i].dry_run /\ ~runs[i].exited /\ runs[i].count > 0
    /\ OutputRel # ""
    /\ cfg.include_tree
    /\ \E k \in 1..Len(runs[2].chunks) : runs[2].chunks[k].kind = "tree"

\* Whether p comes before q in a pre-order walk that takes a directory's
\* own files in sorted order first and its subdirectories in sorted order
\* after: at the first component where they part, a file comes before a
\* directory, and two of a kind are in name order.
PreOrderBefore(p, q) ==
    \E ps \in {Split(p)}, qs \in {Split(q)} :
        \E k \in 1..Len(ps) :
            /\ k <= Len(qs)
            /\ \A m \in 1..(k - 1) : ps[m] = qs[m]
            /\ ps[k] # qs[k]
            /\ IF (k = Len(ps)) = (k = Len(qs)) THEN StrLess(ps[k], qs[k])
               ELSE k = Len(ps)

(***************************************************************************)
(* C10  The files are processed, and so their records written, in one      *)
(* deterministic pre-order: a directory's own files in sorted name order   *)
(* before any file of its subdirectories, and sibling subdirectories in    *)
(* sorted name order, whatever order the filesystem lists them in.  The    *)
(* program sorts the files but walks the subdirectories in the order       *)
(* os.walk lists them, so this fails.                                      *)
(***************************************************************************)
C10_SortedPreOrder ==
    \A i, j \in 1..Len(FileEntries) :
        i < j => PreOrderBefore(FileEntries[i].path, FileEntries[j].path)

\* The text of a template with every "{path}" replaced by the path and
\* nothing else changed.
RECURSIVE Substituted(_, _)
Substituted(template, path) ==
    IF template = "" THEN ""
    ELSE IF StartsWith(template, "{path}")
    THEN path \o Substituted(DropFirst(template, 6), path)
    ELSE CharAt(template, 1) \o Substituted(DropFirst(template, 1), path)

\* Substituted, with the doubled braces of str.format read as single ones.
RECURSIVE Formatted(_, _)
Formatted(template, path) ==
    IF template = "" THEN ""
    ELSE IF StartsWith(template, "{path}")
    THEN path \o Formatted(DropFirst(template, 6), path)
    ELSE IF StartsWith(template, "{{") \/ StartsWith(template, "}}")
    THEN CharAt(template, 1) \o Formatted(DropFirst(template, 2), path)
    ELSE CharAt(template, 1) \o Formatted(DropFirst(template, 1), path)

\* The chunks the step has appended to the output.
NewChunks ==
    SubSeq(artifact'.chunks, Len(artifact.chunks) + 1, Len(artifact'.chunks))

\* The step is an iteration of the file loop that counted a file in a real
\* run.
CountedStep ==
    /\ Len(evaluated') = Len(evaluated) + 1
    /\ ~evaluated'[Len(evaluated')].is_dir
    /\ evaluated'[Len(evaluated')].outcome = "counted"

\* The texts written for one record: head, the raw content, a newline if
\* `terminate`, foot.
RecordTexts(head, content, terminate, foot) ==
    <<head \o "\n", content>> \o (IF terminate THEN <<"\n">> ELSE <<>>) \o <<foot \o "\n">>

FaultyEntry(e) ==
    /\ ~e.is_dir
    /\ e.path = special.path
    /\ \/ special.kind \in {"size_error", "unreadable"}
       \/ special.kind = "read_error" /\ ~dry_run
    /\ e.outcome \notin {"ignored", "not_included", "too_large"}

\* The ignore files with every unreadable one taken away.
ReadableOnly == [d \in TreeDirs |-> IF gitignores[d].readable THEN gitignores[d]
                                    ELSE NoIgnoreFile]

\* The directories (relative paths) the run has listed.
ListedDirs ==
    {d \in {""} \cup {evaluated[i].path : i \in {j \in 1..Len(evaluated) :
                          evaluated[j].is_dir /\ evaluated[j].outcome = "walked"}} :
        ~Unlistable(d)}

\* What holds of the log and the output when a walk has ended.
C12_AtEnd ==
    pc = "done" =>
      /\ \A i \in 1..Len(evaluated) :
            \E e \in {evaluated[i]} :
               /\ FaultyEntry(e) =>
                     /\ e.outcome \notin {"counted", "would_process"}
                     /\ \A k \in 1..Len(RecordChunks) : RecordChunks[k].path # e.path
               /\ e.ignored = is_ignored(ReadableOnly, e.path, e.directory)
               /\ ( /\ gitignores["sub"] = UnreadableIgnoreFile(<<"secret.txt">>)
                    /\ cfg.include_patterns = <<>>
                    /\ e.path = "sub/secret.txt" ) => Admitted(e)
      /\ \A d \in ListedDirs :
            \A n \in FilesIn(d, artifact.exists) :
               \E i \in 1..Len(evaluated) :
                  ~evaluated[i].is_dir /\ evaluated[i].path = PathJoin(d, n)
      /\ \E r \in {runs[Len(runs)]} :
            /\ ~r.exited
            /\ r.count = processed_count
            /\ r.count = Len(SelectSeq(evaluated, Admitted))

(***************************************************************************)
(* C12  Per-entry errors are recoverable: a file whose read fails, whose   *)
(* size cannot be got or that cannot be opened is skipped, neither counted *)
(* nor given a record; an ignore file that cannot be read contributes no   *)
(* rules (every verdict is the one got with that file absent); no step of  *)
(* the walk takes away what the output already holds; and the walk ends    *)
(* with every file of every listed directory evaluated and process()       *)
(* returning its count.                                                    *)
(***************************************************************************)
C12_Recoverable ==
    /\ []C12_AtEnd
    /\ [][pc = "walk" =>
             /\ pc' \in {"walk", "done"}
             /\ Len(artifact.chunks) <= Len(artifact'.chunks)
             /\ SubSeq(artifact'.chunks, 1, Len(artifact.chunks)) = artifact.chunks]_vars

\* A real run has ended in which reading a file failed and sub/.gitignore
\* could not be read; records were written before the failure and a file
\* was counted after it.
C12_Witness ==
    /\ pc = "done"
    /\ ~dry_run
    /\ special.kind = "read_error"
    /\ ~gitignores["sub"].readable
    /\ \E i, j \in 1..Len(evaluated) :
          /\ i < j
          /\ FaultyEntry(evaluated[i]) /\ evaluated[i].outcome = "error"
          /\ evaluated[j].outcome = "counted"
    /\ \E k \in 1..Len(RecordChunks) : RecordChunks[k].path = "sub/secret.txt"

(***************************************************************************)
(* C13  Every exit path of process() closes the output it opened: while a  *)
(* real run walks the handle is open, and once process() has returned      *)
(* (with or without per-file errors) or has ended the program after an     *)
(* exception, the handle is not open; it is closed if it was ever opened.  *)
(***************************************************************************)
C13_HandleClosed ==
    /\ (pc = "walk" /\ ~dry_run) => outfile = "open"
    /\ pc \in {"done", "exited"} =>
          /\ outfile # "open"
          /\ (~dry_run /\ ~OpenFails) => outfile = "closed"
    /\ \A i \in 1..Len(runs) :
          /\ runs[i].outfile # "open"
          /\ (~runs[i].dry_run /\ ~OpenFails) => runs[i].outfile = "closed"

\* The program has ended on an exception raised after the output was
\* opened, and the output is closed.
C13_Witness ==
    /\ pc = "exited"
    /\ ~OpenFails
    /\ artifact.exists
    /\ outfile = "closed"
    /\ runs[Len(runs)].exited

(***************************************************************************)
(* C14  Only a failure to open the output aborts a run, and it does so     *)
(* before anything is traversed or written; whatever fails once the output *)
(* is open, the run completes and returns its count.  An exception raised  *)
(* by the diagram (or by any statement outside the per-file handlers)      *)
(* after the output was opened also ends the program, so this fails.       *)
(***************************************************************************)
C14_OnlyOpenAborts ==
    /\ pc = "exited" => (OpenFails /\ evaluated = <<>> /\ outfile = "none")
    /\ \A i \in 1..Len(runs) :
          runs[i].exited =>
              /\ OpenFails
              /\ runs[i].outfile = "none"
              /\ runs[i].count = 0 /\ runs[i].emitted = <<>>
              /\ i = 1 => (~runs[i].exists /\ runs[i].chunks = <<>>)
              /\ i > 1 => (runs[i].exists = runs[i - 1].exists
                           /\ runs[i].chunks = runs[i - 1].chunks)

\* text holds sub at some position.
Contains(text, sub) ==
    \E i \in 1..(Len(text) - Len(sub) + 1) : SubSeq(text, i, i + Len(sub) - 1) = sub

\* How many times text holds sub.
Occurrences(text, sub) ==
    Cardinality({i \in 1..(Len(text) - Len(sub) + 1) : SubSeq(text, i, i + Len(sub) - 1) = sub})

\* Some component of the path is in the diagram's fixed noise list.
HasNoiseComponent(p) == \E n \in NoiseNames : p = n \/ StartsWith(p, n \o SEP)
                                              \/ EndsWith(p, SEP \o n)
                                              \/ Contains(p, SEP \o n \o SEP)

\* Every directory and file of the tree once the output exists, whatever
\* the ignore rules say: the names the diagram shows them by.
StructureNames ==
    {d \o SEP : d \in TreeDirs \ {""}}
    \cup UNION {{PathJoin(d, n) : n \in FilesIn(d, TRUE)} : d \in TreeDirs}

\* The diagram shows exactly the structure without the noise: each name on
\* a line of its own, once, and nothing else.
ShowsStructure(text) ==
    /\ \A n \in StructureNames :
          IF HasNoiseComponent(IF EndsWith(n, SEP) THEN SubSeq(n, 1, Len(n) - 1) ELSE n)
          THEN ~Contains(text, TEE \o n \o "\n")
          ELSE Occurrences(text, TEE \o n \o "\n") = 1
    /\ Occurrences(text, TEE) =
          Cardinality({n \in StructureNames :
              ~HasNoiseComponent(IF EndsWith(n, SEP) THEN SubSeq(n, 1, Len(n) - 1) ELSE n)})

(***************************************************************************)
(* C15  The diagram does not consult ignore resolution: in a real run      *)
(* with include_tree the first thing written is the diagram, it shows      *)
(* every directory and file of the tree that has no component in the fixed *)
(* noise list, whatever the ignore files, the extra patterns and the       *)
(* include patterns are, and it stays the first chunk of the output,       *)
(* before every file record.  A dry run or a run without include_tree      *)
(* writes no diagram.                                                      *)
(***************************************************************************)
C15_TreeIgnoresRules ==
    /\ [](pc \in {"walk", "done"} /\ ~dry_run =>
            /\ cfg.include_tree =>
                  /\ artifact.chunks # <<>>
                  /\ artifact.chunks[1].kind = "tree"
            /\ \A k \in 2..Len(artifact.chunks) : artifact.chunks[k].kind # "tree"
            /\ ~cfg.include_tree => \A k \in 1..Len(artifact.chunks) :
                                       artifact.chunks[k].kind # "tree")
    /\ [][(pc \in {"idle", "done"} /\ pc' = "walk") =>
             IF ~dry_run /\ cfg.include_tree
             THEN /\ Len(artifact'.chunks) = 1
                  /\ artifact'.chunks[1].kind = "tree"
                  /\ ShowsStructure(artifact'.chunks[1].text)
             ELSE \A k \in 1..Len(artifact'.chunks) :
                     dry_run \/ artifact'.chunks[k].kind # "tree"]_vars

\* A real run with the diagram has ended that pruned sub from the dump
\* while the diagram shows sub and a file beneath it.
C15_Witness ==
    /\ pc = "done"
    /\ ~dry_run
    /\ cfg.include_tree
    /\ \E i \in 1..Len(evaluated) : evaluated[i].path = "sub" /\ evaluated[i].outcome = "pruned"
    /\ \A k \in 1..Len(RecordChunks) : ~Beneath(RecordChunks[k].path, "sub")
    /\ RecordChunks # <<>>
    /\ artifact.chunks[1].kind = "tree"
    /\ Contains(artifact.chunks[1].text, TEE \o "sub/\n")
    /\ Contains(artifact.chunks[1].text, TEE \o "sub/secret.txt\n")

\* The chunk at k starts a complete record: the start delimiter, the
\* content, a newline or none, and the end delimiter of one file.
CompleteAt(chunks, k) ==
    /\ chunks[k].kind = "start"
    /\ k + 2 <= Len(chunks)
    /\ chunks[k + 1].kind = "content" /\ chunks[k + 1].path = chunks[k].path
    /\ \/ chunks[k + 2].kind = "end" /\ chunks[k + 2].path = chunks[k].path
       \/ /\ k + 3 <= Len(chunks)
          /\ chunks[k + 2].kind = "newline" /\ chunks[k + 2].path = chunks[k].path
          /\ chunks[k + 3].kind = "end" /\ chunks[k + 3].path = chunks[k].path

\* The number of complete records in the output.
CompleteRecords(chunks) == Cardinality({k \in 1..Len(chunks) : CompleteAt(chunks, k)})

(***************************************************************************)
(* C16  In a real run the count equals the number of complete records in   *)
(* the output, whatever succeeded and failed per file: during the walk for *)
(* the running count, and at the end for the count process() returns.      *)
(* The count is raised after the token count, which can raise after the    *)
(* record has been written in full, so this fails.                         *)
(***************************************************************************)
C16_CountIsRecords ==
    /\ (pc \in {"walk", "done"} /\ ~dry_run) =>
          processed_count = CompleteRecords(artifact.chunks)
    /\ \A i \in 1..Len(runs) :
          (~runs[i].dry_run /\ ~runs[i].exited) =>
              runs[i].count = CompleteRecords(runs[i].chunks)

(***************************************************************************)
(* C17  Records are atomic: in every state of a real run each start        *)
(* delimiter in the output is followed by its file's content and end       *)
(* delimiter before the next record or the end of the output.  The three   *)
(* writes of a record are separate statements inside one try block, and an *)
(* exception after the first leaves the header without its footer, so this *)
(* fails.                                                                  *)
(***************************************************************************)
C17_RecordsAtomic ==
    /\ \A k \in 1..Len(artifact.chunks) :
          artifact.chunks[k].kind = "start" => CompleteAt(artifact.chunks, k)
    /\ \A i \in 1..Len(runs) :
          \A k \in 1..Len(runs[i].chunks) :
             runs[i].chunks[k].kind = "start" => CompleteAt(runs[i].chunks, k)

\* The sum of the token counts of the contents of the files of a log.
RECURSIVE TokensOf(_)
TokensOf(log) ==
    IF log = <<>> THEN 0
    ELSE estimate_tokens(ReadText(Head(log).path)) + TokensOf(Tail(log))

(***************************************************************************)
(* C18  The token total is scoped to one run: after every real process()   *)
(* call with count_tokens, total_tokens is the sum of the token counts of  *)
(* the files that call emitted, also for a second call on the same         *)
(* RepoProcessor.  total_tokens is set to 0 in __init__ only and process() *)
(* adds to it, so a second call reports the sum of both, and this fails.   *)
(***************************************************************************)
C18_TokensPerRun ==
    \A i \in 1..Len(runs) :
        (cfg.count_tokens /\ ~runs[i].dry_run /\ ~runs[i].exited) =>
            runs[i].tokens = TokensOf(runs[i].emitted)

====
